---- MODULE Spec2Model ----
(***************************************************************************)
(* PWM-to-serial converter (src/esp32/main.cpp).                           *)
(*                                                                         *)
(* Two contexts share highTime / lowTime / lastTransitionTime:             *)
(*   - handleInterrupt, the pin-change interrupt handler.  It runs to      *)
(*     completion (the main loop never runs inside it) and may preempt     *)
(*     loop() between any two accesses of a volatile.                      *)
(*   - loop(), the polling reporter.  Every access of a volatile is one    *)
(*     step; the program counter pc names the source line about to run.    *)
(*                                                                         *)
(* Time is the true microsecond count since boot (now); micros() and       *)
(* millis() are its readings truncated to the width of unsigned long.      *)
(* The float expression of lines 43-44 is carried as an exact fraction     *)
(* <<numerator, denominator>>; IEEE rounding is outside the model.         *)
(***************************************************************************)
EXTENDS Integers, Sequences, FiniteSets, TLC

\* Width of unsigned long in the model (32 on the target).
Width == 19
Mod == 2 ^ Width

\* micros() counts microseconds, millis() milliseconds.
UsPerMs == 1000

\* The cadence threshold of line 39.
ReportPeriod == 250

\* The clock advances in steps of TickMs milliseconds, up to MaxMs.
TickMs == 125
MaxMs == 875

\* The clock of the fair specification (LiveSpec) stops at LiveMaxMs.
LiveMaxMs == 500

\* Clock steps that may pass while one report cycle is between lines 40 and 47.
MaxBodyTicks == 1

\* Inputs of the duty-cycle computation checked on its own (SpecDuty).
MaxDuty == 3
DutyInputs == (0 .. MaxDuty) \cup {2500, 7500, 10000}

VARIABLES
  highTime,            \* volatile unsigned long highTime           (line 8)
  lowTime,             \* volatile unsigned long lowTime            (line 9)
  lastTransitionTime,  \* volatile unsigned long lastTransitionTime (line 10)
  lastPrintTime,       \* static unsigned long lastPrintTime        (line 38)
  pc,                  \* line of loop() about to execute
  first,               \* which operand of line 41 was read first ("h", "l", "none")
  tmp,                 \* value of that operand
  totalTime,           \* unsigned long totalTime                   (line 41)
  dutyCycle,           \* float dutyCycle, as a fraction            (line 43)
  serial,              \* last line written by Serial.println, <<>> if none
  now,                 \* true time since boot, microseconds
  pin,                 \* level of the PWM signal on pwmPin
  irq,                 \* CHANGE interrupt pending
  polled,              \* loop() has run its check since the last clock step
  bodyTicks,           \* clock steps since the current report cycle passed line 39
  \* ---- history (never read by the program) ----
  lastTrue,            \* true time of the last handleInterrupt invocation
  prevTrue,            \* true time of the invocation before it
  delta,               \* timeSinceLastTransition computed by the last invocation
  held,                \* level the signal held since that invocation
  fireMs,              \* true millisecond at which the last report cycle passed line 39
  emitMs,              \* fireMs of the report cycle that wrote the last line
  missed,              \* non-zero deltas the current cycle wiped without reading
  resetBase,           \* lastTransitionTime when line 47 last completed
  resetTrue,           \* true time when line 47 last completed
  resetRaced           \* handleInterrupt ran between lines 46 and 47 of that reset

vars == <<highTime, lowTime, lastTransitionTime, lastPrintTime, pc, first, tmp,
          totalTime, dutyCycle, serial, now, pin, irq, polled, bodyTicks,
          lastTrue, prevTrue, delta, held, fireMs, emitMs, missed, resetBase, resetTrue, resetRaced>>

progVars == <<highTime, lowTime, lastTransitionTime, lastPrintTime>>
localVars == <<first, tmp, totalTime, dutyCycle>>
outVars == <<serial>>
envVars == <<now, pin, irq>>
isrHist == <<lastTrue, prevTrue, delta, held>>
loopHist == <<fireMs, emitMs, resetBase, resetTrue>>

----------------------------------------------------------------------------
\* Unsigned arithmetic of unsigned long.
Add(a, b) == (a + b) % Mod
Sub(a, b) == (a - b + Mod) % Mod

\* micros() and millis() at the current instant.
Micros == now % Mod
NowMs == now \div UsPerMs
Millis == NowMs % Mod

Other(level) == IF level = "HIGH" THEN "LOW" ELSE "HIGH"

\* Exact fractions for the float arithmetic of lines 43-44.
RECURSIVE GCD(_, _)
GCD(a, b) == IF b = 0 THEN a ELSE GCD(b, a % b)

Reduce(q) == LET g == GCD(q[1], q[2]) IN <<q[1] \div g, q[2] \div g>>

RatMul(a, b) ==
  LET g1 == GCD(a[1], b[2])
      g2 == GCD(b[1], a[2])
  IN <<(a[1] \div g1) * (b[1] \div g2), (a[2] \div g2) * (b[2] \div g1)>>

\* 330 * h / t, the value the source means to print (a fraction in lowest terms).
ExactValue(h, t) == RatMul(Reduce(<<h, t>>), <<330, 1>>)

\* a <= 330 for a fraction a.
RatLeq330(a) == a[1] <= 330 * a[2]

NoLine == <<>>
NoDuty == <<0, 1>>

----------------------------------------------------------------------------
\* Mutant of TimeSinceLastTransition: a backward reading of the timer is clamped to 0
\* instead of wrapping.
TimeSinceLastTransition_Clamped(currentTime, last) ==
  IF currentTime >= last THEN currentTime - last ELSE 0

\* Line 16: unsigned long timeSinceLastTransition = currentTime - lastTransitionTime
TimeSinceLastTransition(currentTime, last) == Sub(currentTime, last)

\* Mutant of Attribute: = in place of +=.
Attribute_Assign(level, high, low, d) ==
  IF level = "HIGH" THEN <<high, d>>
                    ELSE <<d, low>>

\* Mutant of Attribute: the else branch does not accumulate.
Attribute_NoElse(level, high, low, d) ==
  IF level = "HIGH" THEN <<high, Add(low, d)>>
                    ELSE <<high, low>>

\* Mutant of Attribute: the two branches are exchanged.
Attribute_Swapped(level, high, low, d) ==
  IF level = "HIGH" THEN <<Add(high, d), low>>
                    ELSE <<high, Add(low, d)>>

\* Lines 18-26: the accumulators after attributing delta, given the pin level read.
\* Returns <<highTime', lowTime'>>.
Attribute(level, high, low, d) ==
  IF level = "HIGH" THEN <<high, Add(low, d)>>
                    ELSE <<Add(high, d), low>>

\* Mutant of Due: lastPrintTime is not subtracted.
Due_NoSub(ms, last) == ms >= ReportPeriod

\* Mutant of Due: the threshold is compared the wrong way round.
Due_Within(ms, last) == Sub(ms, last) <= ReportPeriod

\* Mutant of Due: the threshold is taken in microseconds, the unit of micros().
Due_Micros(ms, last) == Sub(ms, last) >= ReportPeriod * UsPerMs

\* Line 39: millis() - lastPrintTime >= 250
Due(ms, last) == Sub(ms, last) >= ReportPeriod

\* Line 41: highTime + lowTime
Total(high, low) == Add(high, low)

\* Mutant of ShouldEmit: >= in place of >.
ShouldEmit_Geq(total) == total >= 0

\* Line 42: totalTime > 0
ShouldEmit(total) == total > 0

\* Mutant of DutyCycle: the casts to float are missing, so the division is integral.
DutyCycle_IntDiv(high, total) ==
  IF total = 0 THEN <<high, 0>>
               ELSE <<(high \div total) * 100, 1>>

\* Line 43: (float)highTime / (float)totalTime * 100.0
\* (a zero divisor gives the float inf or NaN, carried as a fraction over 0)
DutyCycle(high, total) ==
  IF total = 0 THEN <<high, 0>>
               ELSE RatMul(Reduce(<<high, total>>), <<100, 1>>)

\* Line 44: dutyCycle * 3.3
Scaled(dc) == IF dc[2] = 0 THEN dc ELSE RatMul(dc, <<33, 10>>)

\* Whether an accumulator has been read by line 41 of the current cycle and is not
\* yet reset: what handleInterrupt adds to it now is wiped without being reported.
HighPending ==
  \/ pc = "l41b" /\ first = "h"
  \/ pc \in {"l42", "l43", "l44", "l46"}
LowPending ==
  \/ pc = "l41b" /\ first = "l"
  \/ pc \in {"l42", "l43", "l44", "l46", "l47"}

----------------------------------------------------------------------------
Init ==
  /\ highTime = 0
  /\ lowTime = 0
  /\ lastTransitionTime = 0
  /\ lastPrintTime = 0
  /\ pc = "l39"
  /\ first = "none"
  /\ tmp = 0
  /\ totalTime = 0
  /\ dutyCycle = NoDuty
  /\ serial = NoLine
  /\ now = 0
  /\ pin \in {"LOW", "HIGH"}
  /\ irq = FALSE
  /\ polled = FALSE
  /\ bodyTicks = 0
  /\ lastTrue = 0
  /\ prevTrue = 0
  /\ delta = 0
  /\ held = pin
  /\ fireMs = 0
  /\ emitMs = 0
  /\ missed = 0
  /\ resetBase = 0
  /\ resetTrue = 0
  /\ resetRaced = FALSE

\* The hardware clock advances.  A pending interrupt is dispatched before the clock
\* moves on, and the spinning loop() of the Arduino core polls at least once per step.
Tick ==
  /\ ~irq
  /\ IF pc = "l39" THEN polled /\ UNCHANGED bodyTicks
                   ELSE bodyTicks < MaxBodyTicks /\ bodyTicks' = bodyTicks + 1
  /\ now + TickMs * UsPerMs <= MaxMs * UsPerMs
  /\ now' = now + TickMs * UsPerMs
  /\ polled' = FALSE
  /\ UNCHANGED <<progVars, pc, localVars, outVars, pin, irq, isrHist, loopHist,
                 missed, resetRaced>>

\* The PWM signal changes level; attachInterrupt(..., CHANGE) latches the interrupt
\* (line 33).  A second change before the handler runs leaves one pending interrupt.
Edge ==
  /\ pin' = Other(pin)
  /\ irq' = TRUE
  /\ UNCHANGED <<progVars, pc, localVars, outVars, now, polled, bodyTicks, isrHist, loopHist,
                 missed, resetRaced>>

\* Lines 12-27.
handleInterrupt ==
  /\ irq
  /\ LET currentTime == Micros
         timeSinceLastTransition ==
           TimeSinceLastTransition(currentTime, lastTransitionTime)
         acc == Attribute(pin, highTime, lowTime, timeSinceLastTransition)
         wiped == IF pin = "HIGH" THEN LowPending ELSE HighPending
     IN /\ highTime' = acc[1]
        /\ lowTime' = acc[2]
        /\ lastTransitionTime' = currentTime
        /\ delta' = timeSinceLastTransition
        /\ missed' = IF timeSinceLastTransition > 0 /\ wiped THEN missed + 1
                                                           ELSE missed
  /\ irq' = FALSE
  /\ lastTrue' = now
  /\ prevTrue' = lastTrue
  /\ held' = pin
  /\ resetRaced' = (resetRaced \/ pc = "l47")
  /\ UNCHANGED <<lastPrintTime, pc, localVars, outVars, now, pin, polled, bodyTicks, loopHist>>

\* Line 39: if (millis() - lastPrintTime >= 250), else return.
Loop39_Check ==
  /\ pc = "l39"
  /\ IF Due(Millis, lastPrintTime)
       THEN /\ pc' = "l40"
            /\ fireMs' = NowMs
            /\ missed' = 0
            /\ UNCHANGED polled
       ELSE /\ polled' = TRUE
            /\ UNCHANGED <<pc, fireMs, missed>>
  /\ UNCHANGED <<progVars, localVars, outVars, envVars, bodyTicks, isrHist,
                 emitMs, resetBase, resetTrue, resetRaced>>

\* Line 40: lastPrintTime = millis()
Loop40_Stamp ==
  /\ pc = "l40"
  /\ lastPrintTime' = Millis
  /\ pc' = "l41"
  /\ UNCHANGED <<highTime, lowTime, lastTransitionTime, localVars, outVars, envVars,
                 polled, bodyTicks, isrHist, loopHist, missed, resetRaced>>

\* Line 41, first operand of highTime + lowTime (the two volatile reads are unsequenced).
Loop41_ReadFirst ==
  /\ pc = "l41"
  /\ \/ first' = "h" /\ tmp' = highTime
     \/ first' = "l" /\ tmp' = lowTime
  /\ pc' = "l41b"
  /\ UNCHANGED <<progVars, totalTime, dutyCycle, outVars, envVars, polled, bodyTicks, isrHist,
                 loopHist, missed, resetRaced>>

\* Line 41, second operand and the sum.
Loop41_ReadSecond ==
  /\ pc = "l41b"
  /\ totalTime' = IF first = "h" THEN Total(tmp, lowTime) ELSE Total(highTime, tmp)
  /\ first' = "none"
  /\ tmp' = 0
  /\ pc' = "l42"
  /\ UNCHANGED <<progVars, dutyCycle, outVars, envVars, polled, bodyTicks, isrHist, loopHist,
                 missed, resetRaced>>

\* Line 42: if (totalTime > 0)
Loop42_Test ==
  /\ pc = "l42"
  /\ pc' = IF ShouldEmit(totalTime) THEN "l43" ELSE "l46"
  /\ UNCHANGED <<progVars, localVars, outVars, envVars, polled, bodyTicks, isrHist, loopHist,
                 missed, resetRaced>>

\* Line 43: highTime is read again.
Loop43_Duty ==
  /\ pc = "l43"
  /\ dutyCycle' = DutyCycle(highTime, totalTime)
  /\ pc' = "l44"
  /\ UNCHANGED <<progVars, first, tmp, totalTime, outVars, envVars, polled, bodyTicks, isrHist,
                 loopHist, missed, resetRaced>>

\* Line 44: Serial.println(dutyCycle*3.3)
Loop44_Println ==
  /\ pc = "l44"
  /\ serial' = Scaled(dutyCycle)
  /\ emitMs' = fireMs
  /\ pc' = "l46"
  /\ UNCHANGED <<progVars, localVars, envVars, polled, bodyTicks, isrHist, fireMs,
                 resetBase, resetTrue, missed, resetRaced>>

\* Line 46: highTime = 0
Loop46_ResetHigh ==
  /\ pc = "l46"
  /\ highTime' = 0
  /\ pc' = "l47"
  /\ resetRaced' = FALSE
  /\ UNCHANGED <<lowTime, lastTransitionTime, lastPrintTime, localVars, outVars,
                 envVars, polled, bodyTicks, isrHist, loopHist, missed>>

\* Mutant of Loop47_ResetLow: the reporter also restarts the interval measurement
\* (lastTransitionTime = micros()).
Loop47_ResetLow_Restart ==
  /\ pc = "l47"
  /\ lowTime' = 0
  /\ lastTransitionTime' = Micros
  /\ pc' = "l39"
  /\ totalTime' = 0
  /\ dutyCycle' = NoDuty
  /\ polled' = FALSE
  /\ bodyTicks' = 0
  /\ resetBase' = Micros
  /\ resetTrue' = now
  /\ UNCHANGED <<highTime, lastPrintTime, first, tmp, outVars, envVars, isrHist,
                 fireMs, emitMs, missed, resetRaced>>

\* Line 47: lowTime = 0, and loop() returns (its locals go out of scope).
Loop47_ResetLow ==
  /\ pc = "l47"
  /\ lowTime' = 0
  /\ pc' = "l39"
  /\ totalTime' = 0
  /\ dutyCycle' = NoDuty
  /\ polled' = FALSE
  /\ bodyTicks' = 0
  /\ resetBase' = lastTransitionTime
  /\ resetTrue' = now
  /\ UNCHANGED <<highTime, lastTransitionTime, lastPrintTime, first, tmp, outVars,
                 envVars, isrHist, fireMs, emitMs, missed, resetRaced>>

loop ==
  \/ Loop39_Check
  \/ Loop40_Stamp
  \/ Loop41_ReadFirst
  \/ Loop41_ReadSecond
  \/ Loop42_Test
  \/ Loop43_Duty
  \/ Loop44_Println
  \/ Loop46_ResetHigh
  \/ Loop47_ResetLow

Next == Tick \/ Edge \/ handleInterrupt \/ loop

Spec == Init /\ [][Next]_vars

TypeOK ==
  /\ highTime \in 0 .. Mod - 1
  /\ lowTime \in 0 .. Mod - 1
  /\ lastTransitionTime \in 0 .. Mod - 1
  /\ lastPrintTime \in 0 .. Mod - 1
  /\ totalTime \in 0 .. Mod - 1
  /\ pc \in {"l39", "l40", "l41", "l41b", "l42", "l43", "l44", "l46", "l47"}
  /\ lastTransitionTime = lastTrue % Mod
  /\ ~irq => pin = held

----------------------------------------------------------------------------
\* The duty-cycle computation on its own: loop() runs one report cycle, without
\* preemption, on accumulators drawn from DutyInputs.
InitDuty ==
  /\ highTime \in DutyInputs
  /\ lowTime \in DutyInputs
  /\ lastTransitionTime = 0
  /\ lastPrintTime = 0
  /\ pc = "l39"
  /\ first = "none"
  /\ tmp = 0
  /\ totalTime = 0
  /\ dutyCycle = NoDuty
  /\ serial = NoLine
  /\ now = ReportPeriod * UsPerMs
  /\ pin = "LOW"
  /\ irq = FALSE
  /\ polled = FALSE
  /\ bodyTicks = 0
  /\ lastTrue = 0
  /\ prevTrue = 0
  /\ delta = 0
  /\ held = pin
  /\ fireMs = 0
  /\ emitMs = 0
  /\ missed = 0
  /\ resetBase = 0
  /\ resetTrue = 0
  /\ resetRaced = FALSE

NextDuty == loop

SpecDuty == InitDuty /\ [][NextDuty]_vars

----------------------------------------------------------------------------
\* No report cycle has passed the check of line 39 yet.
NoReportYet == pc = "l39" /\ lastPrintTime = 0

\* A step of handleInterrupt.
IsrStep == irq /\ ~irq'

\* C1: as long as no report cycle has fired since program start, highTime + lowTime
\* equals the sum of the delays between the handler invocations so far, the first
\* measured from timestamp 0; that sum is the true time of the last invocation.
C1_AccumulationSum == NoReportYet => highTime + lowTime = lastTrue

\* C1 witness: two invocations before the first report, one interval on each side.
C1_Witness ==
  /\ NoReportYet
  /\ highTime = TickMs * UsPerMs
  /\ lowTime = TickMs * UsPerMs

\* C2 (as claimed): every invocation of handleInterrupt adds the delta to the
\* accumulator of the level the signal held during the interval, whatever the signal
\* did between the edge and the handler's read of the pin.
C2_AttributedToHeldLevel ==
  [][IsrStep =>
       /\ held = "HIGH" => highTime' = Add(highTime, delta') /\ lowTime' = lowTime
       /\ held = "LOW" => lowTime' = Add(lowTime, delta') /\ highTime' = highTime]_vars

\* C3 (as claimed): when a report cycle ends (line 47 done), both accumulators read
\* zero, whatever the interleaving with handleInterrupt.
C3_ZeroAfterReport ==
  [][pc = "l47" /\ pc' = "l39" => highTime' = 0 /\ lowTime' = 0]_vars

\* C4 (as claimed): a report cycle wipes at most one transition's delta without
\* having read it.
C4_AtMostOneDeltaLost == missed <= 1

\* C5: a report cycle goes on to lines 43-44 exactly when the total it read is
\* non-zero and skips to the reset otherwise; a line is written only by line 44 and
\* only with a non-zero total, and the division of line 43 never has a zero divisor.
C5_ZeroTotalSuppression ==
  [][/\ pc = "l42" /\ pc' # "l42" =>
          pc' = IF totalTime # 0 THEN "l43" ELSE "l46"
     /\ pc = "l43" /\ pc' = "l44" => totalTime # 0 /\ dutyCycle'[2] # 0
     /\ serial' # serial \/ emitMs' # emitMs =>
          pc = "l44" /\ pc' = "l46" /\ totalTime # 0]_vars

\* C5 witness: the first 250 ms boundary with no transition before it: the cycle has
\* skipped to the reset and nothing was written.
C5_Witness ==
  /\ pc = "l46"
  /\ fireMs = ReportPeriod
  /\ lastTrue = 0
  /\ totalTime = 0
  /\ serial = NoLine

\* C6: a report cycle starts only when at least 250 ms have passed since
\* lastPrintTime, and at least 250 ms after the previous cycle started; so two lines
\* are written by cycles that started at least 250 ms apart.
C6_CadenceGating ==
  [][/\ pc = "l39" /\ pc' # "l39" =>
          /\ NowMs - lastPrintTime >= ReportPeriod
          /\ NowMs - fireMs >= ReportPeriod
     /\ pc = "l44" /\ pc' = "l46" /\ serial # NoLine =>
          fireMs - emitMs >= ReportPeriod]_vars

\* C6 witness: a second line is being written, by the cycle that started 250 ms after
\* the one that wrote the first.
C6_Witness ==
  /\ pc = "l46"
  /\ serial # NoLine
  /\ emitMs = 2 * ReportPeriod
  /\ fireMs = emitMs
  /\ lastPrintTime = 2 * ReportPeriod

C8_WithinTimeSinceReport ==
  pc = "l39" /\ ~resetRaced => highTime + lowTime <= now - resetTrue

\* C8 (amended): unless handleInterrupt ran between the two writes of the last reset,
\* highTime + lowTime is, modulo 2^Width, the time from the last transition handled
\* before that reset was complete (program start if none) to the most recent
\* transition handled.
C8_ElapsedSinceBase ==
  pc # "l47" /\ ~resetRaced =>
    (highTime + lowTime) % Mod = Sub(lastTransitionTime, resetBase)

\* C8 witness: after a report, the accumulators hold more than the time elapsed since
\* that report.
C8_Witness ==
  /\ pc = "l39"
  /\ ~resetRaced
  /\ resetTrue > 0
  /\ resetBase > 0
  /\ highTime + lowTime > now - resetTrue

\* C9 (as claimed): the delta equals the true time between two consecutive invocations
\* (prevTrue > 0: there was an earlier one) whenever the timer overflowed at most once
\* between them.
C9_DeltaIfOneOverflow ==
  prevTrue > 0 /\ (lastTrue \div Mod) - (prevTrue \div Mod) <= 1 =>
    delta = lastTrue - prevTrue

\* C9 (amended): the delta equals the true time between two consecutive invocations
\* whenever that time is less than 2^Width.
C9_DeltaIfWithinPeriod ==
  lastTrue - prevTrue < Mod => delta = lastTrue - prevTrue

\* C9 witness: two consecutive invocations with one timer overflow between them,
\* less than 2^Width apart.
C9_Witness ==
  /\ prevTrue > 0
  /\ prevTrue < Mod
  /\ lastTrue >= Mod
  /\ lastTrue - prevTrue < Mod
  /\ delta = lastTrue - prevTrue

\* C10 (as claimed): every value written lies in [0, 330].
C10_ValueWithinScale == serial # NoLine => RatLeq330(serial)

\* C11: an invocation of handleInterrupt adds delta = micros() - lastTransitionTime
\* (unsigned) to lowTime if the pin reads HIGH and to highTime if it reads LOW, leaves
\* the other accumulator and lastPrintTime unchanged, sets lastTransitionTime to the
\* timestamp it read, and writes nothing to the serial channel.
C11_EdgeHandlerEffect ==
  [][IsrStep =>
       /\ delta' = Sub(Micros, lastTransitionTime)
       /\ pin = "HIGH" => lowTime' = Add(lowTime, delta') /\ highTime' = highTime
       /\ pin = "LOW" => highTime' = Add(highTime, delta') /\ lowTime' = lowTime
       /\ lastTransitionTime' = Micros
       /\ UNCHANGED <<lastPrintTime, serial, emitMs, pc, pin>>]_vars

\* C11 witness: the handler has just run with a non-zero delta on a pin reading LOW,
\* after an earlier invocation that credited lowTime.
C11_Witness ==
  /\ lastTrue = now
  /\ ~irq
  /\ pin = "LOW"
  /\ delta > 0
  /\ highTime = delta
  /\ lowTime > 0
  /\ lastTransitionTime = Micros

\* A step of loop() (the reporter): it moves pc, or returns early from line 39.
LoopStep == ~IsrStep /\ (pc' # pc \/ (pc = "l39" /\ polled' /\ ~polled))

\* C12: in every step, highTime and lowTime are changed only by handleInterrupt (which
\* adds the delta) or by the reporter's resets of lines 46 and 47 (which set them to
\* zero); lastTransitionTime is written only by handleInterrupt; lastPrintTime is
\* written only by the reporter (line 40).
C12_Ownership ==
  [][/\ highTime' # highTime =>
          \/ IsrStep /\ highTime' = Add(highTime, delta')
          \/ LoopStep /\ pc = "l46" /\ highTime' = 0
     /\ lowTime' # lowTime =>
          \/ IsrStep /\ lowTime' = Add(lowTime, delta')
          \/ LoopStep /\ pc = "l47" /\ lowTime' = 0
     /\ lastTransitionTime' # lastTransitionTime => IsrStep
     /\ lastPrintTime' # lastPrintTime => LoopStep /\ pc = "l40"
     /\ LoopStep => lastTransitionTime' = lastTransitionTime]_vars

\* C12 witness: each of the four variables has been written by its owner: a report
\* cycle has stamped lastPrintTime and reset lowTime from a non-zero value, and the
\* handler has since credited highTime.
C12_Witness ==
  /\ pc = "l39"
  /\ lastPrintTime > 0
  /\ resetTrue > 0
  /\ serial # NoLine
  /\ lowTime = 0
  /\ highTime > 0
  /\ lastTrue > resetTrue
  /\ lastTransitionTime = lastTrue % Mod

\* C13: an invocation of loop() made when fewer than 250 ms have passed since
\* lastPrintTime returns from line 39: it leaves highTime, lowTime, lastTransitionTime
\* and lastPrintTime unchanged, writes nothing, and starts no report cycle.
C13_EarlyReturnNoOp ==
  [][LoopStep /\ pc = "l39" /\ NowMs - lastPrintTime < ReportPeriod =>
       /\ pc' = "l39"
       /\ UNCHANGED <<highTime, lowTime, lastTransitionTime, lastPrintTime,
                      serial, emitMs>>]_vars

\* C13 witness: loop() has returned early, after an earlier report, with time
\* accumulated and a line already written.
C13_Witness ==
  /\ pc = "l39"
  /\ polled
  /\ lastPrintTime > 0
  /\ NowMs - lastPrintTime < ReportPeriod
  /\ NowMs > lastPrintTime
  /\ highTime > 0
  /\ serial # NoLine

\* C15 (as claimed): in every report cycle the totalTime of line 41 equals the
\* mathematical sum of the two accumulator values it read, so it is never smaller
\* than the highTime it read.
C15_TotalIsSum ==
  [][pc = "l41b" /\ pc' = "l42" =>
       LET high == IF first = "h" THEN tmp ELSE highTime
           low == IF first = "h" THEN lowTime ELSE tmp
       IN totalTime' = high + low /\ totalTime' >= high]_vars

----------------------------------------------------------------------------
\* The clock of the fair specification: Tick, up to LiveMaxMs.
LiveTick == Tick /\ now' <= LiveMaxMs * UsPerMs

LiveNext == LiveTick \/ Edge \/ handleInterrupt \/ loop

\* Scheduling of the target: the Arduino core calls loop() forever, a pending
\* interrupt is dispatched, and the hardware clock keeps advancing however often the
\* signal changes (up to the last instant of this specification, ClockEndMs).
LiveSpec ==
  /\ Init
  /\ [][LiveNext]_vars
  /\ WF_vars(loop)
  /\ WF_vars(handleInterrupt)
  /\ SF_vars(LiveTick)

\* The last instant the clock of LiveSpec reaches.
ClockEndMs == (LiveMaxMs \div TickMs) * TickMs

\* C14: whenever the reporter is at line 39 and the clock can still reach 250 ms past
\* lastPrintTime, a report cycle eventually fires; and whenever a cycle has read a
\* non-zero total at line 41, that cycle eventually writes a line.
C14_ReportLiveness ==
  /\ [](pc = "l39" /\ lastPrintTime + ReportPeriod <= ClockEndMs => <>(pc = "l40"))
  /\ [](pc = "l42" /\ totalTime > 0 =>
          <>(pc = "l46" /\ emitMs = fireMs /\ serial # NoLine))

\* C14 witness: a second report cycle has fired and written a line for time the
\* handler accumulated after the first report.
C14_Witness ==
  /\ pc = "l46"
  /\ fireMs >= 2 * ReportPeriod
  /\ emitMs = fireMs
  /\ totalTime > 0
  /\ lastTrue > ReportPeriod * UsPerMs
  /\ serial # NoLine

====
